---- MODULE Spec2Model ----
(***************************************************************************)
(* Model of the Teamer bot (src/main.py): the two sqlite tables Teams and  *)
(* Users, the guild's text channels, and the slash-command handlers make,  *)
(* join, update, leave and the on_guild_channel_delete event handler.      *)
(*                                                                         *)
(* The handlers are coroutines on one asyncio event loop.  Every database  *)
(* helper is synchronous (db_connect_wrapper opens, commits and closes the *)
(* connection inside the call), so the code between two awaits of a        *)
(* platform call is one atomic step; another handler can run only while a  *)
(* handler is suspended at an await.  Each action below is one such        *)
(* segment.  Only make and leave touch the database on both sides of an    *)
(* await, so only they have in-flight state.                               *)
(*                                                                         *)
(* The awaits that follow a handler's last access to the store (the       *)
(* closing messages) are not steps of their own.  Guild roles are not      *)
(* modelled: they influence the store only through a platform call         *)
(* raising, which handler_fail covers.  What a handler tells its user is   *)
(* the msg field of the result that its decision operator returns.         *)
(***************************************************************************)
EXTENDS Integers, FiniteSets, Sequences, Bags, TLC

\* ---------------------------------------------------------------- bounds
NumUsers == 2
NumNames == 2
NumCodes == 2
MaxChannels == 2
MaxHandlers == 2

UserIds == 1..NumUsers

\* get_random_name(...) + 's' draws from a finite space of lowercase names.
NameSpace == <<"calm-red-ants", "bold-blue-bees", "shy-teal-cats", "odd-pink-dogs">>
TeamNamePool == {NameSpace[i] : i \in 1..NumNames}

\* make_code() draws from the finite space of 4-letter/3-digit codes.
CodeSpace == <<"AB1C2D3", "W4XY5Z6", "Q7R8ST9", "K1L2MN3">>
JoinCodePool == {CodeSpace[i] : i \in 1..NumCodes}

\* Table numbers a user may type; "" is the absent optional argument.
TableNumbers == {"A1", "B2"}
\* /make stores the table number it is given as it is: one value is enough
\* there, /update then sets any.
MakeTables == {"A1"}
NoTable == ""
\* The absent optional new_leader argument.
NoMember == 0
\* on_which_team's result for a user without a row.
NoTeam == ""

VARIABLES
    Teams,        \* rows of table Teams
    Users,        \* rows of table Users
    channels,     \* the guild's text channels: [id, name]
    events,       \* channel-delete events sent by the gateway, not yet handled
    nextChannelId,\* the platform's next channel id
    handlers      \* the bag of command handlers suspended at an await,
                  \* each with its position and its local variables

vars == <<Teams, Users, channels, events, nextChannelId, handlers>>

Idle == [pc |-> "idle", user |-> 0, table_number |-> "", team_name |-> "",
         join_code |-> "", channel_id |-> 0]

\* ------------------------------------------------------- database helpers

\* SELECT team_name FROM Teams
get_current_teams(T) == {r.team_name : r \in T}

\* SELECT team_name FROM Users WHERE user_id = ? ... fetchone(), else ''
on_which_team(U, user_id) ==
    IF \E r \in U : r.user_id = user_id
    THEN (CHOOSE r \in U : r.user_id = user_id).team_name
    ELSE NoTeam

\* The names the retry loop of gen_team_name can return: those not live.
gen_team_name(T) == TeamNamePool \ get_current_teams(T)

\* The codes the retry loop of make_join_code can return: those not live.
make_join_code(T) == JoinCodePool \ {r.join_code : r \in T}

\* INSERT INTO Teams; team_name is the PRIMARY KEY, a duplicate raises
\* sqlite3.IntegrityError and the wrapper never commits.
create_team(T, team_name, leader_id, table_number, join_code, channel_id) ==
    IF team_name \in get_current_teams(T)
    THEN [raised |-> TRUE, Teams |-> T]
    ELSE [raised |-> FALSE,
          Teams |-> T \cup {[team_name |-> team_name, leader_id |-> leader_id,
                             table_number |-> table_number,
                             join_code |-> join_code, id |-> channel_id]}]

\* INSERT INTO Users without the PRIMARY KEY on user_id.
add_user_to_team_nokey(U, user_id, team_name) ==
    [raised |-> FALSE,
     Users |-> U \cup {[user_id |-> user_id, team_name |-> team_name]}]

\* INSERT INTO Users; user_id is the PRIMARY KEY, a duplicate raises
\* ValueError (from sqlite3.IntegrityError).
add_user_to_team(U, user_id, team_name) ==
    IF \E r \in U : r.user_id = user_id
    THEN [raised |-> TRUE, Users |-> U]
    ELSE [raised |-> FALSE,
          Users |-> U \cup {[user_id |-> user_id, team_name |-> team_name]}]

\* delete_team_from_db without the delete from Teams.
delete_team_from_db_keeps_team(T, U, team_name) ==
    [Teams |-> T,
     Users |-> {r \in U : r.team_name # team_name}]

\* delete_team_from_db without the delete from Users.
delete_team_from_db_keeps_users(T, U, team_name) ==
    [Teams |-> {r \in T : r.team_name # team_name},
     Users |-> U]

\* DELETE FROM Teams WHERE team_name = ?; DELETE FROM Users WHERE team_name = ?
delete_team_from_db(T, U, team_name) ==
    [Teams |-> {r \in T : r.team_name # team_name},
     Users |-> {r \in U : r.team_name # team_name}]

\* SELECT team_name, id FROM Teams WHERE join_code = ? ... fetchone():
\* the rows a fetchone() may return (sqlite picks one when several match).
resolve_join_code(T, join_code) == {r \in T : r.join_code = join_code}

\* SELECT leader_id FROM Teams WHERE team_name = ? ... fetchone()[0];
\* only evaluated for a live team (fetchone() is None otherwise).
get_team_leader(T, team_name) ==
    (CHOOSE r \in T : r.team_name = team_name).leader_id

\* UPDATE Teams SET leader_id = ? WHERE team_name = ?
update_leader(T, team_name, leader_id) ==
    {IF r.team_name = team_name THEN [r EXCEPT !.leader_id = leader_id] ELSE r
     : r \in T}

\* UPDATE Teams SET table_number = ? WHERE team_name = ?
update_table_num(T, team_name, table_number) ==
    {IF r.team_name = team_name THEN [r EXCEPT !.table_number = table_number]
     ELSE r : r \in T}

\* DELETE FROM Users WHERE user_id = ?
drop_user(U, user_id) == {r \in U : r.user_id # user_id}

\* SELECT COUNT(*) FROM Users WHERE team_name = ?
count_members(U, team_name) == Cardinality({r \in U : r.team_name = team_name})

\* The archived name leave gives the channel of an emptied team.
ArchivedName(team_name) == "archived-" \o team_name

\* ------------------------------------------------------------------ Init
Init ==
    /\ Teams = {}
    /\ Users = {}
    /\ channels = {}
    /\ events = {}
    /\ nextChannelId = 1
    /\ handlers = EmptyBag

InFlight == BagToSet(handlers)

\* A handler spinning in the synchronous retry loop of gen_team_name or
\* make_join_code never returns to the event loop: nothing else runs.
Blocked == \E me \in InFlight : me.pc = "retry_loop"

\* No handler is suspended: every dispatched command has run to completion.
Quiescent == handlers = EmptyBag

\* A command may be dispatched while fewer than MaxHandlers are suspended.
CanStart == ~Blocked /\ BagCardinality(handlers) < MaxHandlers

Suspend(me) == handlers (+) SetToBag({me})
Finish(me) == handlers (-) SetToBag({me})

\* ------------------------------------------------------------------ make

\* on_team with the lookup dropped: nobody is ever reported on a team.
on_team_never(U, user_id) == NoTeam

\* on_team: the caller's team ('' when none); a caller on a team is told
\* "You are already on a team" and the command returns.
on_team(U, user_id) == on_which_team(U, user_id)

\* /make up to its first suspension (lines 211-224): "already_on_team",
\* "retry_loop" when a generator can never find a free value, else the
\* handler suspends in make_team_channel.
make_first(T, U, user) ==
    [msg |-> IF on_team(U, user) # NoTeam THEN "already_on_team"
             ELSE IF gen_team_name(T) = {} \/ make_join_code(T) = {}
             THEN "retry_loop"
             ELSE "suspend",
     Teams |-> T, Users |-> U]

\* /make from its start to the await inside make_team_channel at which the
\* platform has created the team's text channel (lines 211-224, 161-169);
\* the handler then stays suspended in the channel edits and add_roles.
make_begin(user, table_number) ==
    /\ CanStart
    /\ LET res == make_first(Teams, Users, user)
       IN
       /\ Teams' = res.Teams
       /\ Users' = res.Users
       /\ IF res.msg = "already_on_team"
           THEN UNCHANGED <<channels, nextChannelId, handlers>>
           ELSE IF res.msg = "retry_loop"
           THEN /\ handlers' = Suspend([Idle EXCEPT !.pc = "retry_loop",
                                                     !.user = user])
                /\ UNCHANGED <<channels, nextChannelId>>
           ELSE \E team_name \in gen_team_name(Teams),
                   join_code \in make_join_code(Teams) :
                /\ nextChannelId <= MaxChannels
                /\ channels' = channels
                       \cup {[id |-> nextChannelId, name |-> team_name]}
                /\ nextChannelId' = nextChannelId + 1
                /\ handlers' = Suspend(
                       [pc |-> "make_store", user |-> user,
                        table_number |-> table_number, team_name |-> team_name,
                        join_code |-> join_code, channel_id |-> nextChannelId])
    /\ UNCHANGED events

\* /make resumed (lines 227-228): create_team then add_user_to_team, two
\* commits with no await between them; an exception in either ends the
\* handler ("traceback").
make_second(T, U, me) ==
    LET ct == create_team(T, me.team_name, me.user, me.table_number,
                          me.join_code, me.channel_id)
        au == add_user_to_team(U, me.user, me.team_name)
    IN  [msg |-> IF ct.raised \/ au.raised THEN "traceback" ELSE "team_created",
         Teams |-> ct.Teams,
         Users |-> IF ct.raised THEN U ELSE au.Users]

make_store(me) ==
    /\ ~Blocked
    /\ me \in InFlight /\ me.pc = "make_store"
    /\ LET res == make_second(Teams, Users, me)
       IN  /\ Teams' = res.Teams
           /\ Users' = res.Users
    /\ handlers' = Finish(me)
    /\ UNCHANGED <<channels, events, nextChannelId>>

\* ------------------------------------------------------------------ join

\* join with the validity check of the code dropped: an unknown code adds
\* a row for a team that does not exist.
join_result_nocodecheck(T, U, ch, user, join_code) ==
    IF on_team(U, user) # NoTeam
    THEN {[msg |-> "already_on_team", Teams |-> T, Users |-> U]}
    ELSE {[msg |-> "joined", Teams |-> T,
           Users |-> add_user_to_team(U, user, join_code).Users]}

\* /join (lines 249-275): the results the command can have.  on_team,
\* resolve_join_code and add_user_to_team run before the first await of a
\* path that goes on, so the command is one step on the store.  fetchone()
\* returns any one of the rows with the code; team_channel is None when the
\* channel of that id is gone, and `.mention` then raises after the insert.
join_result(T, U, ch, user, join_code) ==
    IF on_team(U, user) # NoTeam
    THEN {[msg |-> "already_on_team", Teams |-> T, Users |-> U]}
    ELSE IF resolve_join_code(T, join_code) = {}
    THEN {[msg |-> "invalid_join_code", Teams |-> T, Users |-> U]}
    ELSE {LET au == add_user_to_team(U, user, name_and_chan.team_name)
          IN  [msg |-> IF au.raised \/ ~\E c \in ch : c.id = name_and_chan.id
                       THEN "traceback" ELSE "joined",
               Teams |-> T, Users |-> au.Users]
          : name_and_chan \in resolve_join_code(T, join_code)}

join(user, join_code) ==
    /\ ~Blocked
    /\ \E res \in join_result(Teams, Users, channels, user, join_code) :
          /\ Teams' = res.Teams
          /\ Users' = res.Users
    /\ UNCHANGED <<channels, events, nextChannelId, handlers>>

\* ---------------------------------------------------------------- update

\* The leadership branch of update without the membership comparison.
new_leader_rejection_nocheck(U, actor, leader_id, new_leader) ==
    IF actor = new_leader THEN "already_leader" ELSE "ok"

\* The two checks of update's `if new_leader:` branch (lines 333-341).
new_leader_rejection(U, actor, leader_id, new_leader) ==
    IF on_which_team(U, new_leader) # on_which_team(U, leader_id)
    THEN "new_leader_not_member"
    ELSE IF actor = new_leader THEN "already_leader" ELSE "ok"

\* The authorisation part of update with the leader check left out.
update_target_noleadercheck(T, U, user, moderator, channel_name) ==
    IF ~moderator
    THEN IF on_which_team(U, user) = NoTeam
         THEN [msg |-> "not_on_team", team_name |-> NoTeam]
         ELSE IF on_which_team(U, user) \notin get_current_teams(T)
         THEN [msg |-> "traceback", team_name |-> NoTeam]
         ELSE [msg |-> "ok", team_name |-> on_which_team(U, user)]
    ELSE IF channel_name \notin get_current_teams(T)
         THEN [msg |-> "moderator_not_in_team_channel", team_name |-> NoTeam]
         ELSE [msg |-> "ok", team_name |-> channel_name]

\* The authorisation part of update (lines 306-326): the team the command
\* acts on, or the message it is refused with.  get_team_leader raises
\* TypeError (fetchone() is None) when the user's row names no live team.
update_target(T, U, user, moderator, channel_name) ==
    IF ~moderator
    THEN IF on_which_team(U, user) = NoTeam
         THEN [msg |-> "not_on_team", team_name |-> NoTeam]
         ELSE IF on_which_team(U, user) \notin get_current_teams(T)
         THEN [msg |-> "traceback", team_name |-> NoTeam]
         ELSE IF get_team_leader(T, on_which_team(U, user)) # user
         THEN [msg |-> "not_leader", team_name |-> NoTeam]
         ELSE [msg |-> "ok", team_name |-> on_which_team(U, user)]
    ELSE IF channel_name \notin get_current_teams(T)
         THEN [msg |-> "moderator_not_in_team_channel", team_name |-> NoTeam]
         ELSE [msg |-> "ok", team_name |-> channel_name]

\* /update with the table number written before the new leader is checked.
update_result_tablefirst(T, U, ch, user, new_leader, table_number, moderator, channel_name) ==
    IF new_leader = NoMember /\ table_number = NoTable
    THEN [msg |-> "no_argument", Teams |-> T, Users |-> U]
    ELSE LET tgt == update_target(T, U, user, moderator, channel_name)
         IN
         IF tgt.msg # "ok"
         THEN [msg |-> tgt.msg, Teams |-> T, Users |-> U]
         ELSE LET team_name == tgt.team_name
                  leader_id == get_team_leader(T, team_name)
                  T0 == IF table_number = NoTable THEN T
                        ELSE update_table_num(T, team_name, table_number)
                  rej == IF new_leader = NoMember THEN "ok"
                         ELSE new_leader_rejection(U, user, leader_id, new_leader)
                  T2 == IF new_leader = NoMember THEN T0
                        ELSE update_leader(T0, team_name, new_leader)
              IN
              IF rej # "ok"
              THEN [msg |-> rej, Teams |-> T0, Users |-> U]
              ELSE [msg |-> IF table_number # NoTable
                               /\ ~\E c \in ch : c.name = team_name
                            THEN "traceback" ELSE "updated",
                    Teams |-> T2, Users |-> U]

\* /update (lines 298-352): the result of the command.  Every database call
\* precedes the first await of a path that goes on (team_channel.edit), so
\* the command is one step on the store.  team_channel is None when no
\* channel has the team's name: `.topic` then raises after the writes.
update_result(T, U, ch, user, new_leader, table_number, moderator, channel_name) ==
    IF new_leader = NoMember /\ table_number = NoTable
    THEN [msg |-> "no_argument", Teams |-> T, Users |-> U]
    ELSE LET tgt == update_target(T, U, user, moderator, channel_name)
         IN
         IF tgt.msg # "ok"
         THEN [msg |-> tgt.msg, Teams |-> T, Users |-> U]
         ELSE LET team_name == tgt.team_name
                  leader_id == get_team_leader(T, team_name)
                  rej == IF new_leader = NoMember THEN "ok"
                         ELSE new_leader_rejection(U, user, leader_id, new_leader)
                  T1 == IF new_leader = NoMember THEN T
                        ELSE update_leader(T, team_name, new_leader)
                  T2 == IF table_number = NoTable THEN T1
                        ELSE update_table_num(T1, team_name, table_number)
              IN
              IF rej # "ok"
              THEN [msg |-> rej, Teams |-> T, Users |-> U]
              ELSE [msg |-> IF table_number # NoTable
                               /\ ~\E c \in ch : c.name = team_name
                            THEN "traceback" ELSE "updated",
                    Teams |-> T2, Users |-> U]

update(user, new_leader, table_number, moderator, channel_name) ==
    /\ ~Blocked
    /\ LET res == update_result(Teams, Users, channels, user, new_leader,
                                table_number, moderator, channel_name)
       IN  /\ Teams' = res.Teams
           /\ Users' = res.Users
    /\ UNCHANGED <<channels, events, nextChannelId, handlers>>

\* ----------------------------------------------------------------- leave

\* leave's first part without the leader check.
leave_first_noleadercheck(T, U, user) ==
    LET team_name == on_which_team(U, user)
    IN  IF team_name = NoTeam
        THEN [msg |-> "not_on_team", Users |-> U, team_name |-> NoTeam]
        ELSE IF team_name \notin get_current_teams(T)
        THEN [msg |-> "traceback", Users |-> U, team_name |-> NoTeam]
        ELSE [msg |-> "suspend", Users |-> drop_user(U, user),
              team_name |-> team_name]

\* /leave up to its first suspension (lines 369-385): the two checks and
\* drop_user, then `await inter.user.remove_roles(...)`.  get_team_leader
\* raises TypeError when the user's row names no live team.
leave_first(T, U, user) ==
    LET team_name == on_which_team(U, user)
    IN  IF team_name = NoTeam
        THEN [msg |-> "not_on_team", Users |-> U, team_name |-> NoTeam]
        ELSE IF team_name \notin get_current_teams(T)
        THEN [msg |-> "traceback", Users |-> U, team_name |-> NoTeam]
        ELSE IF get_team_leader(T, team_name) = user
                /\ count_members(U, team_name) > 1
        THEN [msg |-> "leader_cannot_leave", Users |-> U, team_name |-> NoTeam]
        ELSE [msg |-> "suspend", Users |-> drop_user(U, user),
              team_name |-> team_name]

leave_begin(user) ==
    /\ CanStart
    /\ LET res == leave_first(Teams, Users, user)
       IN  /\ Users' = res.Users
           /\ handlers' = IF res.msg = "suspend"
                          THEN Suspend([Idle EXCEPT !.pc = "leave_await",
                                                    !.user = user,
                                                    !.team_name = res.team_name])
                          ELSE handlers
    /\ UNCHANGED <<Teams, channels, events, nextChannelId>>

\* leave's tail with the empty-team cleanup left out.
leave_second_nocleanup(T, U, team_name) == [Teams |-> T, Users |-> U]

\* /leave resumed (lines 396-397): `if count_members(team_name) == 0:
\* delete_team_from_db(team_name)`.
leave_second(T, U, team_name) ==
    IF count_members(U, team_name) = 0
    THEN delete_team_from_db(T, U, team_name)
    ELSE [Teams |-> T, Users |-> U]

\* /leave resumed after remove_roles and the leaving message: the emptiness
\* check, delete_team_from_db and the renaming of the team's channel
\* (discord.utils.get returns any one channel of that name, or None).
leave_finish(me) ==
    /\ ~Blocked
    /\ me \in InFlight /\ me.pc = "leave_await"
    /\ LET team_name == me.team_name
           res == leave_second(Teams, Users, team_name)
           named == {c \in channels : c.name = team_name}
       IN  /\ Teams' = res.Teams
           /\ Users' = res.Users
           /\ IF count_members(Users, team_name) = 0 /\ named # {}
              THEN \E c \in named :
                      channels' = (channels \ {c})
                                  \cup {[c EXCEPT !.name = ArchivedName(team_name)]}
              ELSE UNCHANGED channels
    /\ handlers' = Finish(me)
    /\ UNCHANGED <<events, nextChannelId>>

\* -------------------------------------------------------------- get table

\* The pool's names as a user may type them with other letter case.
CaseVariants ==
    <<"Calm-Red-Ants", "BOLD-BLUE-BEES", "Shy-Teal-Cats", "ODD-PINK-DOGS">>

\* str.lower on the names /get_table_number is given: a case variant of a
\* pool name becomes that name, a lower-case name is left as it is.
lower(s) ==
    IF \E i \in 1..Len(CaseVariants) : CaseVariants[i] = s
    THEN NameSpace[CHOOSE i \in 1..Len(CaseVariants) : CaseVariants[i] = s]
    ELSE s

\* The names /get_table_number is invoked with: the pool's names, their
\* case variants and a name no team has.
TeamNameInputs ==
    TeamNamePool \cup {CaseVariants[i] : i \in 1..NumNames} \cup {"no-such-team"}

\* get_table_from_db: the rows selected by the exact (case-sensitive) name;
\* fetchone() is None when there is none and [0] raises.
get_table_from_db(T, team_name) ==
    LET rows == {t \in T : t.team_name = team_name}
    IN  IF rows = {}
        THEN [raised |-> TRUE, table_number |-> NoTable]
        ELSE [raised |-> FALSE,
              table_number |-> (CHOOSE t \in rows : TRUE).table_number]

\* /get_table_number: the reply. The validity test lower-cases the name,
\* the query does not.
get_table_number_result(T, team_name) ==
    IF lower(team_name) \notin get_current_teams(T)
    THEN [msg |-> "invalid_team_name", table_number |-> NoTable]
    ELSE LET got == get_table_from_db(T, team_name)
         IN  IF got.raised
             THEN [msg |-> "traceback", table_number |-> NoTable]
             ELSE [msg |-> "table_number", table_number |-> got.table_number]

\* The command only reads the store.
get_table_number(team_name) ==
    /\ ~Blocked
    /\ get_table_number_result(Teams, team_name).msg
          \in {"invalid_team_name", "traceback", "table_number"}
    /\ UNCHANGED vars

\* --------------------------------------------------------- channel delete

\* Somebody deletes a text channel in the guild; the gateway queues the
\* event for the bot.
channel_deleted(c) ==
    /\ c \in channels
    /\ channels' = channels \ {c}
    /\ events' = events \cup {c}
    /\ UNCHANGED <<Teams, Users, nextChannelId, handlers>>

\* on_guild_channel_delete (lines 193-195): the store after the event; the
\* team is looked up by the channel's name.
channel_delete_result(T, U, channel) ==
    IF channel.name \in get_current_teams(T)
    THEN delete_team_from_db(T, U, channel.name)
    ELSE [Teams |-> T, Users |-> U]

\* on_guild_channel_delete (lines 195-200): how the handler can end.  The
\* body runs only for the name of a live team; there `team_role.delete`
\* raises when the guild has no role of that name.
channel_delete_outcomes(T, channel) ==
    IF channel.name \in get_current_teams(T)
    THEN {"team_deleted", "traceback"}
    ELSE {"ignored"}

on_guild_channel_delete(channel) ==
    /\ ~Blocked
    /\ channel \in events
    /\ events' = events \ {channel}
    /\ LET res == channel_delete_result(Teams, Users, channel)
       IN  /\ Teams' = res.Teams
           /\ Users' = res.Users
    /\ UNCHANGED <<channels, nextChannelId, handlers>>

\* ---------------------------------------------------------------- errors

\* The platform call a handler is suspended in raises: the handler ends
\* there (cmd_error only writes the traceback log).
handler_fail(me) ==
    /\ ~Blocked
    /\ me \in InFlight /\ me.pc \in {"make_store", "leave_await"}
    /\ handlers' = Finish(me)
    /\ UNCHANGED <<Teams, Users, channels, events, nextChannelId>>

\* ------------------------------------------------------------ behaviours

\* The channels a command can be invoked in: the team channels and the
\* guild's other channels, which are never a team's.
ChannelNames == {c.name : c \in channels} \cup {"general"}

\* Handlers interleave at their awaits and platform calls may raise.
Next ==
    \/ \E u \in UserIds, tn \in MakeTables : make_begin(u, tn)
    \/ \E me \in InFlight : make_store(me)
    \/ \E u \in UserIds, jc \in JoinCodePool : join(u, jc)
    \/ \E u \in UserIds, nl \in UserIds \cup {NoMember},
          tn \in TableNumbers \cup {NoTable}, m \in BOOLEAN, cn \in ChannelNames :
          \* only a moderator's update reads the channel it is invoked in
          (m \/ cn = "general") /\ update(u, nl, tn, m, cn)
    \/ \E u \in UserIds : leave_begin(u)
    \/ \E me \in InFlight : leave_finish(me)
    \/ \E name \in TeamNameInputs : get_table_number(name)
    \/ \E c \in channels : channel_deleted(c)
    \/ \E c \in events : on_guild_channel_delete(c)
    \/ \E me \in InFlight : handler_fail(me)

Spec == Init /\ [][Next]_vars

\* Commands are dispatched one at a time: a handler starts only when no
\* other is suspended, and no platform call raises.
NextSeq ==
    \/ \E u \in UserIds, tn \in MakeTables : Quiescent /\ make_begin(u, tn)
    \/ \E me \in InFlight : make_store(me)
    \/ \E u \in UserIds, jc \in JoinCodePool : Quiescent /\ join(u, jc)
    \/ \E u \in UserIds, nl \in UserIds \cup {NoMember},
          tn \in TableNumbers \cup {NoTable}, m \in BOOLEAN, cn \in ChannelNames :
          Quiescent /\ (m \/ cn = "general") /\ update(u, nl, tn, m, cn)
    \/ \E u \in UserIds : Quiescent /\ leave_begin(u)
    \/ \E me \in InFlight : leave_finish(me)
    \/ \E name \in TeamNameInputs : Quiescent /\ get_table_number(name)
    \/ \E c \in channels : channel_deleted(c)
    \/ \E c \in events : Quiescent /\ on_guild_channel_delete(c)

SpecSeq == Init /\ [][NextSeq]_vars

\* ================================================================ claims

Row(user_id, team_name) == [user_id |-> user_id, team_name |-> team_name]
Rejected(msg) == [msg |-> msg, Teams |-> Teams, Users |-> Users]

\* C1: whatever the interleaving of the handlers at their awaits, each
\* user_id appears in at most one row of Users.
C1_OneTeamPerUser ==
    \A r1, r2 \in Users : r1.user_id = r2.user_id => r1 = r2

\* A make resumed for a user who joined or made another team meanwhile: the
\* insert into Users was refused, the user keeps the one row.
C1_Witness ==
    \E t \in Teams, r \in Users :
        /\ r.user_id = t.leader_id
        /\ r.team_name # t.team_name
        /\ count_members(Users, t.team_name) = 0
        /\ Quiescent

\* C2: with commands dispatched one at a time, after every completed
\* command each live team's leader has a Users row for that team.
C2_LeaderIsMember ==
    Quiescent => \A t \in Teams : Row(t.leader_id, t.team_name) \in Users

\* Two makes, a leave, a join and an update have completed: one team is
\* left, both users are on it, and its table number was set by /update.
C2_Witness ==
    /\ Quiescent
    /\ nextChannelId = 3
    /\ \E t \in Teams :
          /\ Teams = {t}
          /\ t.table_number = "B2"
          /\ count_members(Users, t.team_name) = 2

\* C3 (as claimed): when the leave of a team's leader finishes, the team
\* is gone or its leader_id is one of its members, whatever ran while the
\* leave was suspended.
C3_LeaveAtomic ==
    [][\A me \in InFlight :
          (/\ leave_finish(me)
           /\ \E t \in Teams : t.team_name = me.team_name /\ t.leader_id = me.user)
          => \A t \in Teams' :
                t.team_name = me.team_name
                => Row(t.leader_id, t.team_name) \in Users']_vars

\* C4 (as claimed): a step that writes a new row of Teams also leaves the
\* Users row of that team's leader.
C4_MakeAllOrNothing ==
    [][\A t \in Teams' :
          t.team_name \notin get_current_teams(Teams)
          => Row(t.leader_id, t.team_name) \in Users']_vars

\* C5: with commands dispatched one at a time, no team without members is
\* left after a completed command; the leave of a sole member goes through,
\* removes the team and leaves the user on no team.
C5_NoEmptyTeam ==
    Quiescent =>
        /\ \A t \in Teams : count_members(Users, t.team_name) > 0
        /\ \A u1 \in UserIds :
              LET T == on_which_team(Users, u1)
                  l1 == leave_first(Teams, Users, u1)
                  l2 == leave_second(Teams, l1.Users, T)
              IN  (T # NoTeam /\ count_members(Users, T) = 1)
                  => /\ l1.msg = "suspend"
                     /\ T \notin get_current_teams(l2.Teams)
                     /\ on_which_team(l2.Users, u1) = NoTeam

\* The sole member of the only team has left: both tables are empty and the
\* team's channel carries the archived name.
C5_Witness ==
    /\ Quiescent
    /\ Teams = {} /\ Users = {}
    /\ \E c \in channels, n \in TeamNamePool : c.name = ArchivedName(n)

\* C6 (as claimed): no two live teams share a join_code.
C6_UniqueJoinCode ==
    \A t1, t2 \in Teams : t1.join_code = t2.join_code => t1 = t2

\* The case of C7: team t is led by u1 = t.leader_id and u2 is its one
\* other member.
C7_Case(t, u2) ==
    /\ u2 # t.leader_id
    /\ Row(t.leader_id, t.team_name) \in Users
    /\ Row(u2, t.team_name) \in Users
    /\ count_members(Users, t.team_name) = 2

\* C7: for a team T led by u1 with one other member u2, leave(u1) is
\* refused and changes nothing; update(new_leader = u2) by u1 goes through
\* and changes only T's leader_id; after it leave(u1) goes through and T is
\* still there with u2 as its sole member and its leader.
C7_TransferThenLeave ==
    Quiescent =>
    \A t \in Teams, u2 \in UserIds :
        C7_Case(t, u2) =>
        LET u1 == t.leader_id
            T == t.team_name
            t2 == [t EXCEPT !.leader_id = u2]
            up == update_result(Teams, Users, channels, u1, u2, NoTable,
                                FALSE, "general")
            l1 == leave_first(up.Teams, up.Users, u1)
            l2 == leave_second(up.Teams, l1.Users, T)
        IN  /\ leave_first(Teams, Users, u1)
                 = [msg |-> "leader_cannot_leave", Users |-> Users,
                    team_name |-> NoTeam]
            /\ up = [msg |-> "updated", Teams |-> (Teams \ {t}) \cup {t2},
                     Users |-> Users]
            /\ l1.msg = "suspend"
            /\ t2 \in l2.Teams
            /\ {r \in l2.Users : r.team_name = T} = {Row(u2, T)}
            /\ on_which_team(l2.Users, u1) = NoTeam

\* A team with its leader and one other member, no command in progress.
C7_Witness ==
    /\ Quiescent
    /\ \E t \in Teams, u2 \in UserIds : C7_Case(t, u2)

\* The rows of T whose leader_id or table_number differ in T2.
Changed(T, T2) ==
    {t \in T : \E t2 \in T2 :
        /\ t2.team_name = t.team_name
        /\ (t2.leader_id # t.leader_id \/ t2.table_number # t.table_number)}

\* C8: update changes the leader_id or table_number of a team only if the
\* actor is that team's leader, or is a moderator invoking it in the channel
\* named after the team; a non-moderator on no team, or not the leader of
\* their team, is refused and no team is changed.
C8_UpdateAuthorised ==
    \A u \in UserIds, nl \in UserIds \cup {NoMember},
       tn \in TableNumbers \cup {NoTable}, m \in BOOLEAN, cn \in ChannelNames :
        LET res == update_result(Teams, Users, channels, u, nl, tn, m, cn)
            mine == on_which_team(Users, u)
        IN  /\ \A t \in Changed(Teams, res.Teams) :
                  t.leader_id = u \/ (m /\ cn = t.team_name)
            /\ get_current_teams(res.Teams) = get_current_teams(Teams)
            /\ (~m /\ mine = NoTeam)
               => /\ res.msg \in {"no_argument", "not_on_team"}
                  /\ res.Teams = Teams
            /\ (~m /\ mine # NoTeam
                   /\ \E t \in Teams : t.team_name = mine /\ t.leader_id # u)
               => /\ res.msg \in {"no_argument", "not_leader"}
                  /\ res.Teams = Teams

\* A team whose table number /update has set ("B2" is never given to
\* /make) and that has a member who is not its leader, whose own update is
\* refused.
C8_Witness ==
    \E t \in Teams, u \in UserIds :
        /\ t.table_number = "B2"
        /\ Row(u, t.team_name) \in Users
        /\ u # t.leader_id
        /\ update_result(Teams, Users, channels, u, NoMember, "A1", FALSE,
                         "general").msg = "not_leader"

\* C9: join by a user on no team with a code no live team has is refused
\* as an invalid code and changes neither table.
C9_InvalidJoinCode ==
    \A u \in UserIds, jc \in JoinCodePool :
        (on_which_team(Users, u) = NoTeam /\ resolve_join_code(Teams, jc) = {})
        => join_result(Teams, Users, channels, u, jc)
              = {Rejected("invalid_join_code")}

\* A user on no team and a code that is not live, while another code is.
C9_Witness ==
    \E u \in UserIds, jc \in JoinCodePool :
        /\ on_which_team(Users, u) = NoTeam
        /\ resolve_join_code(Teams, jc) = {}
        /\ Teams # {} /\ Users # {}

\* C10: make or join by a user who has a Users row when the command is
\* handled is refused as already on a team and changes neither table, for
\* join also when the code is that of another live team.
C10_AlreadyOnTeam ==
    \A u \in UserIds :
        on_which_team(Users, u) # NoTeam
        => /\ make_first(Teams, Users, u) = Rejected("already_on_team")
           /\ \A jc \in JoinCodePool :
                 join_result(Teams, Users, channels, u, jc)
                    = {Rejected("already_on_team")}

\* A user on one team holds the valid code of another live team.
C10_Witness ==
    \E u \in UserIds, t \in Teams :
        /\ on_which_team(Users, u) \notin {NoTeam, t.team_name}
        /\ on_which_team(Users, u) \in get_current_teams(Teams)
        /\ count_members(Users, t.team_name) > 0

\* C11 (as claimed): for every actor who may act on team T (its leader, or
\* a moderator in T's channel, member of T or not), update with the actor
\* as new leader is refused as "already the leader" and changes nothing.
C11_SelfTransfer ==
    Quiescent =>
    \A t \in Teams, u \in UserIds, tn \in TableNumbers \cup {NoTable},
       m \in BOOLEAN :
        ((~m /\ t.leader_id = u) \/ m)
        => update_result(Teams, Users, channels, u, u, tn, m,
                         IF m THEN t.team_name ELSE "general")
              = Rejected("already_leader")

\* C12 (as claimed): handling the removal of a channel deletes a team only
\* if the channel's id is the one stored in the team's row; the removal of
\* a channel that is no team's changes neither table.
C12_DeleteByExternalRef ==
    \A c \in events :
        LET res == channel_delete_result(Teams, Users, c)
        IN  /\ \A t \in Teams : t \notin res.Teams => t.id = c.id
            /\ (~\E t \in Teams : t.id = c.id)
               => (res.Teams = Teams /\ res.Users = Users)

\* C13 (as claimed): for every name it is given, /get_table_number either
\* replies with the table number stored for the live team of that name or
\* says the name is not a valid team; it fails in no other way, also for a
\* name that differs from a live team's name in letter case only.
C13_GetTableNumber ==
    \A name \in TeamNameInputs :
        LET res == get_table_number_result(Teams, name)
        IN  \/ res.msg = "invalid_team_name"
            \/ /\ res.msg = "table_number"
               /\ \E t \in Teams : /\ lower(t.team_name) = lower(name)
                                   /\ res.table_number = t.table_number

\* C14 (as claimed): name and join-code generation terminates also when
\* every name or code of the pool is live, so no /make is ever left in the
\* generator's loop, which it cannot leave (the loop tests the names read
\* before it, and nothing runs while it spins).
C14_GenerationTerminates ==
    \A me \in InFlight : me.pc # "retry_loop"

\* C15 (as claimed): no handler writes to the store after it has awaited a
\* platform call: the step that resumes a suspended handler leaves Teams
\* and Users as they are.
C15_NoWriteAfterAwait ==
    [][\A me \in InFlight :
          handlers' = Finish(me) => UNCHANGED <<Teams, Users>>]_vars

\* C16: handling the removal event of a channel a second time changes
\* nothing: the store after two deliveries is the store after one, and the
\* second delivery skips the handler's body, so it raises nothing.
C16_DeleteIdempotent ==
    \A c \in events :
        LET once == channel_delete_result(Teams, Users, c)
            twice == channel_delete_result(once.Teams, once.Users, c)
        IN  /\ twice = once
            /\ channel_delete_outcomes(once.Teams, c) = {"ignored"}

\* The removal event of the channel of a live team with members is pending:
\* its first delivery deletes the team and its membership rows.
C16_Witness ==
    \E c \in events, t \in Teams :
        /\ c.name = t.team_name /\ c.id = t.id
        /\ count_members(Users, t.team_name) = 2
        /\ channel_delete_result(Teams, Users, c) = [Teams |-> {}, Users |-> {}]

\* C17: in every state, also between the two parts of a make or a leave,
\* each row of Users names a live team, and deleting a team leaves no row
\* of Users that names it.
C17_ReferentialIntegrity ==
    /\ \A r \in Users : r.team_name \in get_current_teams(Teams)
    /\ \A t \in Teams :
          count_members(delete_team_from_db(Teams, Users, t.team_name).Users,
                        t.team_name) = 0

\* A team was deleted when its last member left (its channel is archived),
\* its name was drawn again by a later /make, and a leave of the new team is
\* suspended while the removal event of the new channel is pending.
C17_Witness ==
    \E t \in Teams, c \in channels, e \in events, me \in InFlight :
        /\ c.name = ArchivedName(t.team_name)
        /\ e.name = t.team_name
        /\ me.pc = "leave_await" /\ me.team_name = t.team_name
        /\ count_members(Users, t.team_name) = 1

\* C18: an update that names a new leader and a table number and whose new
\* leader is refused (not on the leader's team, or the actor themself)
\* returns both tables as they were: no leader, no table number and no
\* membership row is changed.
C18_RejectedUpdateAppliesNothing ==
    \A u \in UserIds, nl \in UserIds, tn \in TableNumbers,
       m \in BOOLEAN, cn \in ChannelNames :
        LET tgt == update_target(Teams, Users, u, m, cn)
            res == update_result(Teams, Users, channels, u, nl, tn, m, cn)
        IN  /\ res.msg \in {"new_leader_not_member", "already_leader"}
               => (res.Teams = Teams /\ res.Users = Users)
            /\ (/\ tgt.msg = "ok"
                /\ \/ nl = u
                   \/ on_which_team(Users, nl)
                         # on_which_team(Users,
                                         get_team_leader(Teams, tgt.team_name)))
               => /\ res.msg \in {"new_leader_not_member", "already_leader"}
                  /\ res.Teams = Teams /\ res.Users = Users

\* A team whose table number an earlier update set to B2, led by a member,
\* and a user on no team: the leader's update naming that user and table A1
\* is refused, as is the one naming the leader themself.
C18_Witness ==
    \E t \in Teams, nl \in UserIds :
        /\ t.table_number = "B2"
        /\ Row(t.leader_id, t.team_name) \in Users
        /\ on_which_team(Users, nl) = NoTeam
        /\ update_result(Teams, Users, channels, t.leader_id, nl, "A1",
                         FALSE, "general").msg = "new_leader_not_member"
        /\ update_result(Teams, Users, channels, t.leader_id, t.leader_id,
                         "A1", FALSE, "general").msg = "already_leader"
====
